---- MODULE Spec2Model ----
(***************************************************************************)
(* The task-status poller of frontend/src/services/api.ts.                 *)
(*                                                                         *)
(* A polling session is one call of pollTaskStatus(taskId, onUpdate,       *)
(* pollInterval).  The call creates the outcome promise and runs the       *)
(* closure poll() once; poll() issues getVoiceCloneStatus(taskId) and      *)
(* suspends at the await.  When the request completes, the rest of poll()  *)
(* runs to its end as one JavaScript job: it invokes the observer and then *)
(* resolves, rejects or arms a timer whose callback is poll() again.       *)
(* The remote collaborator is the environment: it holds one status         *)
(* snapshot per task identifier and answers every request either with the  *)
(* current snapshot or with a transport error.                             *)
(*                                                                         *)
(* Spec runs one session against a collaborator whose tasks move on,       *)
(* FairSpec adds that requests complete and timers fire, and PairSpec runs *)
(* two sessions side by side against answers that stay what they are.      *)
(*                                                                         *)
(* The rest of the front end is modelled beside the poller: the link       *)
(* check validateVideoLink of frontend/src/utils/link-validation.ts        *)
(* (ValidateSpec: one call on any text), the submission submitVoiceClone   *)
(* of api.ts (SubmitSpec: one call with any UploadRequest, answered by the *)
(* collaborator), and the upload page with its two tabs, which submits     *)
(* through a mutation (PageSpec).                                          *)
(***************************************************************************)
EXTENDS Naturals, Sequences, FiniteSets

\* ---------------------------------------------------------------- bounds
\* The histories of a session (fetched, observed) are kept for its first
\* MaxPolls polls.  With the next poll they are dropped and nFetch stays at
\* MaxPolls + 1, "more than MaxPolls"; the session itself polls on.
MaxPolls == 4
\* Saturation of the counters of resolve()/reject() calls.
MaxCalls == 2

\* ------------------------------------------------------------ the domain
Sessions == {"s1", "s2"}
TaskIds == {"task-a", "task-b"}

\* A value that is not there (an omitted argument, a missing JSON field).
Undefined == "undefined"

\* pollInterval: number = 2000
DefaultPollInterval == 2000
\* The pollInterval arguments a caller passes: omitted, or an override.
Omitted == [given |-> FALSE, ms |-> 0]
Given(ms) == [given |-> TRUE, ms |-> ms]
IntervalArgs == {Omitted, Given(500)}

NonTerminalStatuses == {"pending", "processing", "queued"}
ErrorMessages == {Undefined, "", "model timeout"}

\* VoiceCloneStatusResponse, reduced to the fields pollTaskStatus reads.
Snapshot(st, msg) == [status |-> st, error_message |-> msg]
Snapshots ==
    {Snapshot(st, Undefined) : st \in NonTerminalStatuses \cup {"success"}}
        \cup {Snapshot("failure", msg) : msg \in ErrorMessages}
NoSnapshot == Snapshot("none", Undefined)

\* Values a promise is rejected with.
ErrorValue(n, msg) == [name |-> n, message |-> msg]
NoError == ErrorValue("none", "")
\* What axios rejects a request with (network failure, timeout, HTTP error).
TransportErrors == {ErrorValue("AxiosError", "Network Error"),
                    ErrorValue("AxiosError", "timeout of 60000ms exceeded")}
\* What an observer throws when it throws.
ObserverError == ErrorValue("ObserverError", "observer threw")

NotStarted == [taskId |-> Undefined, pollInterval |-> Omitted]
Pending == [state |-> "pending", snapshot |-> NoSnapshot, error |-> NoError]
NoResponse == [kind |-> "none", snapshot |-> NoSnapshot, error |-> NoError,
               threw |-> FALSE]

\* ------------------------------------------------- link texts and URLs
\* A text is the sequence of its characters.  The texts of the model are
\* written over lower-case letters, the upper-case letters of ToLower, the
\* space, and the delimiters colon, slash, question mark, equals, dot, at.
Space == " "
LowerLetters ==
    {"a", "b", "c", "d", "e", "f", "g", "h", "i", "j", "k", "l", "m", "n",
     "o", "p", "q", "r", "s", "t", "u", "v", "w", "x", "y", "z"}
ToLower == [H |-> "h", T |-> "t", P |-> "p", S |-> "s", Y |-> "y"]
Letters == LowerLetters \cup DOMAIN ToLower

\* The hostnames of the platforms, as validateVideoLink spells them.
YoutubeCom == <<"y", "o", "u", "t", "u", "b", "e", ".", "c", "o", "m">>
YoutuBe == <<"y", "o", "u", "t", "u", ".", "b", "e">>
VimeoCom == <<"v", "i", "m", "e", "o", ".", "c", "o", "m">>
DriveGoogleCom == <<"d", "r", "i", "v", "e", ".", "g", "o", "o", "g", "l",
  "e", ".", "c", "o", "m">>

\* What a link text is put together from: a scheme with its separator, or
\* none; a host, or none; the rest.
SchemeParts ==
    {<<>>, <<"/", "/">>, <<"h", "t", "t", "p", "s", ":", "/", "/">>, <<"h",
      "t", "t", "p", ":", "/", "/">>,
     <<"H", "T", "T", "P", "S", ":", "/", "/">>,
     <<"h", "t", "t", "p", "s", ":">>, <<"f", "t", "p", ":", "/", "/">>,
     <<"m", "a", "i", "l", "t", "o", ":">>, <<"r", "t", "s", "p", ":", "/",
       "/">>}
HostParts ==
    {<<>>, YoutubeCom, YoutuBe, VimeoCom, DriveGoogleCom,
     <<"w", "w", "w", ".", "y", "o", "u", "t", "u", "b", "e", ".", "c", "o",
       "m">>,
     <<"p", "l", "a", "y", "e", "r", ".", "v", "i", "m", "e", "o", ".", "c",
       "o", "m">>,
     <<"Y", "o", "u", "T", "u", "b", "e", ".", "c", "o", "m">>,
     <<"n", "o", "t", "y", "o", "u", "t", "u", "b", "e", ".", "c", "o", "m">>,
     <<"y", "o", "u", "t", "u", "b", "e", ".", "c", "o", "m", ".", "e", "v",
       "i", "l", ".", "e", "x", "a", "m", "p", "l", "e">>,
     <<"m", "y", "v", "i", "m", "e", "o", ".", "c", "o", "m">>,
     <<"y", "o", "u", "t", "u", ".", "b", "e", ".", "v", "i", "m", "e", "o",
       ".", "c", "o", "m">>,
     <<"v", "i", "m", "e", "o", ".", "c", "o", "m", ".", "d", "r", "i", "v",
       "e", ".", "g", "o", "o", "g", "l", "e", ".", "c", "o", "m">>,
     <<"e", "x", "a", "m", "p", "l", "e", ".", "c", "o", "m">>,
     <<"g", "o", "o", "g", "l", "e", ".", "c", "o", "m">>,
     <<"y", "o", "u", " ", "t", "u", "b", "e", ".", "c", "o", "m">>,
     <<"y", "o", "u", "t", "u", "b", "e", ".", "c", "o", "m", "@", "e", "x",
       "a", "m", "p", "l", "e", ".", "c", "o", "m">>}
RestParts ==
    {<<>>, <<"/", "w", "a", "t", "c", "h", "?", "v", "=", "a", "b", "c">>,
     <<"/", "v", "i", "m", "e", "o", ".", "c", "o", "m">>}
Padded(text) == <<Space>> \o text \o <<Space, Space>>
Unpadded ==
    {sch \o host \o rest :
        sch \in SchemeParts, host \in HostParts, rest \in RestParts}
Urls ==
    Unpadded
        \cup {<<Space>>, <<Space, Space>>}
        \cup {Padded(<<"h", "t", "t", "p", "s", ":", "/", "/">> \o host) :
                 host \in {YoutubeCom, <<"e", "x", "a", "m", "p", "l", "e",
                   ".", "c", "o", "m">>}}

\* The fields a LinkValidation leaves out are Undefined.
LinkValidation(valid, platform, error) ==
    [isValid |-> valid, platform |-> platform, error |-> error]
\* How a call ends: it returns a value or it throws.
Return(value) == [kind |-> "return", value |-> value]
NoValue == LinkValidation(FALSE, Undefined, Undefined)
Throw == [kind |-> "throw", value |-> NoValue]
NotCalled == [kind |-> "none", value |-> NoValue]

\* ------------------------------------------------------------ submission
\* Calls of submitVoiceClone that may await their answer at once.
MaxSubmits == 2

\* The file size limit of the upload tab, in bytes.
MaxFileSize == 100 * 1024 * 1024

\* A File, by what the program reads of it.
File(type, size) == [type |-> type, size |-> size]
NoFile == File("", 0)

\* A text the model never looks into is the one-element sequence of it.
Word(w) == <<w>>
\* A value of a form field or of UploadRequest.data: a File or a string.
FileValue(file) == [isFile |-> TRUE, file |-> file, text |-> <<>>]
TextValue(text) == [isFile |-> FALSE, file |-> NoFile, text |-> text]

\* voice_settings: left out, or an object with its members in order.
NoSettings == [given |-> FALSE, members |-> <<>>]
Settings(members) == [given |-> TRUE, members |-> members]

UploadRequest(type, data, source, language, settings) ==
    [type |-> type, data |-> data, source |-> source,
     target_language |-> language, voice_settings |-> settings]
RequestTypes == {"file", "link"}
SourceArgs == {Undefined, "local", "google-drive", "youtube", "vimeo"}
LanguageArgs == {Undefined, "", "es"}
SettingsArgs ==
    {NoSettings, Settings(<<>>),
     Settings(<<<<"stability", "high">>, <<"style", "calm">>>>)}
\* Every UploadRequest over one file and over one link text.
FileRequests ==
    {UploadRequest(type, FileValue(File("video/mp4", 1024)), source, language,
                   settings) :
        type \in RequestTypes, source \in SourceArgs,
        language \in LanguageArgs, settings \in SettingsArgs}
TextRequests ==
    {UploadRequest(type, TextValue(Word("https://youtu.be/abc")), source,
                   language, settings) :
        type \in RequestTypes, source \in SourceArgs,
        language \in LanguageArgs, settings \in SettingsArgs}

\* The bodies the collaborator answers a submission with.
ApiResponse(success, message, taskId) ==
    [success |-> success, message |-> message, task_id |-> taskId]
ApiResponses ==
    {ApiResponse(TRUE, "queued", "task-a"),
     ApiResponse(FALSE, "unsupported file", Undefined)}
NoBody == ApiResponse(FALSE, "", Undefined)
HttpResponse(body) == [status |-> 200, data |-> body]

\* The promise of a submitVoiceClone call, and the latest settled call.
Awaiting == [state |-> "pending", data |-> NoBody, error |-> NoError]
Fulfilled(body) == [state |-> "fulfilled", data |-> body, error |-> NoError]
Failed(err) == [state |-> "rejected", data |-> NoBody, error |-> err]
\* What the transport delivered for a POST: a response or an error.
Answer(kind, response, err) ==
    [kind |-> kind, response |-> response, error |-> err]
NoAnswer == Answer("none", HttpResponse(NoBody), NoError)
NoCall ==
    [request |-> UploadRequest("none", TextValue(<<>>), Undefined, Undefined,
                               NoSettings),
     posts |-> <<>>, answer |-> NoAnswer, promise |-> Awaiting]

\* --------------------------------------------------------- the upload page
Tabs == {"upload", "link"}
\* useMutation's state: idle, pending, success with data, error with error.
Mutation(status, data, error) ==
    [status |-> status, data |-> data, error |-> error]
MutationIdle == Mutation("idle", NoBody, NoError)
NoAlert == ""
\* The files a user drops or picks: a listed and an unlisted type, a size
\* under, at and over the limit.
PageFiles ==
    {File(type, size) :
        type \in {"video/mp4", "video/quicktime"},
        size \in {MaxFileSize - 1, MaxFileSize, MaxFileSize + 1}}
\* The texts a user types into the link input.
PageLinks ==
    {<<Space>>,
     <<"h", "t", "t", "p", "s", ":", "/", "/", "y", "o", "u", "t", "u", ".", "b", "e">>,
     <<"h", "t", "t", "p", "s", ":", "/", "/", "v", "i", "m", "e", "o", ".", "c", "o", "m">>,
     <<"h", "t", "t", "p", "s", ":", "/", "/", "e", "x", "a", "m", "p", "l", "e", ".", "c", "o", "m">>,
     <<"v", "i", "m", "e", "o", ".", "c", "o", "m">>}

VARIABLES
    server,        \* the collaborator's current snapshot of every task
    args,          \* the arguments each session was started with
    inFlight,      \* getVoiceCloneStatus requests of the session in flight
    timers,        \* delays of the session's pending setTimeout callbacks
    outcome,       \* the promise pollTaskStatus returned
    calls,         \* how often resolve and reject were called
    nFetch,        \* requests the session has issued
    fetched,       \* snapshots the session's requests returned, in order
    observed,      \* snapshots onUpdate was invoked with, in order
    lastObserved,  \* the snapshot of the latest onUpdate invocation
    lastResponse   \* the completion of the session's latest request

VARIABLES
    url,           \* the text validateVideoLink is called with
    result         \* how that call ended

VARIABLES
    submits,       \* the submitVoiceClone calls awaiting their answer
    settled        \* the latest submitVoiceClone call that has settled

VARIABLES
    activeTab,     \* UploadPage: the tab shown
    selectedFile,  \* UploadPage: the file being processed, NoFile for null
    selectedLink,  \* UploadPage: the link being processed
    mutation,      \* UploadPage: the state of useMutation
    link,          \* LinkTab: the text of the input
    validation,    \* LinkTab: the LinkValidation of that text
    alerted        \* UploadTab: the message of the latest alert()

pollerVars == <<server, args, inFlight, timers, outcome, calls, nFetch,
                fetched, observed, lastObserved, lastResponse>>
validateVars == <<url, result>>
submitVars == <<submits, settled>>
pageVars == <<activeTab, selectedFile, selectedLink, mutation, link,
              validation, alerted>>
uiVars == <<validateVars, submitVars, pageVars>>
vars == <<pollerVars, uiVars>>

\* validateVideoLink has not been called.
ValidateIdle ==
    /\ url = <<>>
    /\ result = NotCalled
\* submitVoiceClone has not been called.
SubmitIdle ==
    /\ submits = <<>>
    /\ settled = NoCall
\* The upload page as it is mounted.
PageMounted ==
    /\ activeTab = "upload"
    /\ selectedFile = NoFile
    /\ selectedLink = <<>>
    /\ mutation = MutationIdle
    /\ link = <<>>
    /\ validation = LinkValidation(FALSE, Undefined, Undefined)
    /\ alerted = NoAlert
\* Nothing has happened outside the poller.
UiIdle == ValidateIdle /\ SubmitIdle /\ PageMounted

Min(a, b) == IF a < b THEN a ELSE b

\* Appends the answer to the latest of n requests to a history still kept.
Record(h, n, x) == IF n <= MaxPolls THEN Append(h, x) ELSE h
\* A history when a session that has issued n requests issues one more.
Kept(h, n) == IF n < MaxPolls THEN h ELSE <<>>

Started(s) == args[s] # NotStarted
TaskOf(s) == args[s].taskId

\* Faulty variant: the pollInterval argument is ignored.
PollInterval_IgnoresArgument(s) == DefaultPollInterval

\* The default parameter value: pollInterval = 2000 when omitted.
PollInterval(s) ==
    IF args[s].pollInterval.given THEN args[s].pollInterval.ms
    ELSE DefaultPollInterval

\* Faulty variant: no fallback, the message is passed on as it is.
FailureMessage_Raw(snap) == snap.error_message

\* status.error_message || "Task failed": any falsy message is replaced.
FailureMessage(snap) ==
    IF snap.error_message \in {Undefined, ""} THEN "Task failed"
    ELSE snap.error_message

\* Faulty variant: `failure` is not taken for a terminal status.
Branch_FailureKeepsPolling(snap, threw) ==
    IF threw THEN "catch"
    ELSE IF snap.status = "success" THEN "resolve"
    ELSE "schedule"

\* Faulty variant: an exception of the observer is swallowed.
Branch_ThrowSwallowed(snap, threw) ==
    IF snap.status = "success" THEN "resolve"
    ELSE IF snap.status = "failure" THEN "reject"
    ELSE "schedule"

\* The path the rest of poll() takes once the request returned `snap` and
\* onUpdate(snap) threw or returned: the catch block, resolve, reject, or
\* setTimeout.
Branch(snap, threw) ==
    IF threw THEN "catch"
    ELSE IF snap.status = "success" THEN "resolve"
    ELSE IF snap.status = "failure" THEN "reject"
    ELSE "schedule"

\* Faulty variant: resolve() is called without the snapshot.
Resolve_NoValue(p, snap) ==
    IF p.state = "pending"
    THEN [state |-> "resolved", snapshot |-> NoSnapshot, error |-> NoError]
    ELSE p

\* resolve(v) / reject(e) of a promise: only the first call settles it.
Resolve(p, snap) ==
    IF p.state = "pending"
    THEN [state |-> "resolved", snapshot |-> snap, error |-> NoError]
    ELSE p
Reject(p, err) ==
    IF p.state = "pending"
    THEN [state |-> "rejected", snapshot |-> NoSnapshot, error |-> err]
    ELSE p

Init ==
    /\ server \in [TaskIds -> {Snapshot("pending", Undefined)}]
    /\ args = [s \in Sessions |-> NotStarted]
    /\ inFlight = [s \in Sessions |-> 0]
    /\ timers = [s \in Sessions |-> <<>>]
    /\ outcome = [s \in Sessions |-> Pending]
    /\ calls = [s \in Sessions |-> [resolve |-> 0, reject |-> 0]]
    /\ nFetch = [s \in Sessions |-> 0]
    /\ fetched = [s \in Sessions |-> <<>>]
    /\ observed = [s \in Sessions |-> <<>>]
    /\ lastObserved = [s \in Sessions |-> NoSnapshot]
    /\ lastResponse = [s \in Sessions |-> NoResponse]
    /\ UiIdle

\* No session of the poller has been started, every task is pending.
PollerIdle ==
    /\ server = [t \in TaskIds |-> Snapshot("pending", Undefined)]
    /\ args = [s \in Sessions |-> NotStarted]
    /\ inFlight = [s \in Sessions |-> 0]
    /\ timers = [s \in Sessions |-> <<>>]
    /\ outcome = [s \in Sessions |-> Pending]
    /\ calls = [s \in Sessions |-> [resolve |-> 0, reject |-> 0]]
    /\ nFetch = [s \in Sessions |-> 0]
    /\ fetched = [s \in Sessions |-> <<>>]
    /\ observed = [s \in Sessions |-> <<>>]
    /\ lastObserved = [s \in Sessions |-> NoSnapshot]
    /\ lastResponse = [s \in Sessions |-> NoResponse]

\* ------------------------------------------------------------ the poller

\* Faulty variants: the setTimeout is not in an else branch and runs on
\* every path; it is missing; it is there twice.
Scheduled_Always(s, branch) == <<PollInterval(s)>>
Scheduled_Never(s, branch) == <<>>
Scheduled_Twice(s, branch) ==
    IF branch = "schedule" THEN <<PollInterval(s), PollInterval(s)>> ELSE <<>>

\* Faulty variant: a `success` resolves and still re-arms the timer.
Scheduled_AfterResolve(s, branch) ==
    IF branch \in {"schedule", "resolve"} THEN <<PollInterval(s)>> ELSE <<>>

\* setTimeout(poll, pollInterval) on the "schedule" path, nothing otherwise:
\* the delays of the timers the rest of poll() arms.
Scheduled(s, branch) ==
    IF branch = "schedule" THEN <<PollInterval(s)>> ELSE <<>>

\* Faulty variant: the observer is only told about a changed snapshot.
Observe_OnChange(h, n, snap) ==
    IF h # <<>> /\ h[Len(h)] = snap THEN h ELSE Record(h, n, snap)

\* onUpdate(status): the observer is invoked with the snapshot as fetched.
Observe(h, n, snap) == Record(h, n, snap)

\* The promise after the rest of poll() took `branch`.
Settle(p, branch, snap) ==
    CASE branch = "resolve" -> Resolve(p, snap)
      [] branch = "reject" -> Reject(p, ErrorValue("Error", FailureMessage(snap)))
      [] branch = "catch" -> Reject(p, ObserverError)
      [] OTHER -> p

\* The resolve()/reject() call counters after one more call on `branch`.
Called(c, branch) ==
    CASE branch = "resolve" ->
            [c EXCEPT !.resolve = Min(@ + 1, MaxCalls)]
      [] branch \in {"reject", "catch"} ->
            [c EXCEPT !.reject = Min(@ + 1, MaxCalls)]
      [] OTHER -> c

\* pollTaskStatus(taskId, onUpdate, pollInterval): new Promise(...) whose
\* executor calls poll() at once, so the first request goes out here.
StartSession(s, t, iv) ==
    /\ ~Started(s)
    /\ args' = [args EXCEPT ![s] = [taskId |-> t, pollInterval |-> iv]]
    /\ inFlight' = [inFlight EXCEPT ![s] = @ + 1]
    /\ nFetch' = [nFetch EXCEPT ![s] = Min(@ + 1, MaxPolls + 1)]
    /\ UNCHANGED <<server, timers, outcome, calls, fetched, observed,
                   lastObserved, lastResponse>>
    /\ UNCHANGED uiVars

\* Faulty variant: setInterval instead of setTimeout, the timer stays armed.
TimerFires_Repeating(s) ==
    /\ timers[s] # <<>>
    /\ inFlight[s] < MaxPolls
    /\ inFlight' = [inFlight EXCEPT ![s] = @ + 1]
    /\ nFetch' = [nFetch EXCEPT ![s] = Min(@ + 1, MaxPolls + 1)]
    /\ fetched' = [fetched EXCEPT ![s] = Kept(@, nFetch[s])]
    /\ observed' = [observed EXCEPT ![s] = Kept(@, nFetch[s])]
    /\ UNCHANGED <<server, args, timers, outcome, calls, lastObserved,
                   lastResponse>>
    /\ UNCHANGED uiVars

\* A timer armed by setTimeout(poll, pollInterval) fires: it is gone, and
\* poll() runs up to its await.
TimerFires(s) ==
    /\ timers[s] # <<>>
    /\ timers' = [timers EXCEPT ![s] = Tail(@)]
    /\ inFlight' = [inFlight EXCEPT ![s] = @ + 1]
    /\ nFetch' = [nFetch EXCEPT ![s] = Min(@ + 1, MaxPolls + 1)]
    /\ fetched' = [fetched EXCEPT ![s] = Kept(@, nFetch[s])]
    /\ observed' = [observed EXCEPT ![s] = Kept(@, nFetch[s])]
    /\ UNCHANGED <<server, args, outcome, calls, lastObserved, lastResponse>>
    /\ UNCHANGED uiVars

\* A request of the session returns the collaborator's current snapshot and
\* the rest of poll() runs: onUpdate(status), which returns or throws, then
\* resolve / reject / setTimeout, or the catch block.
FetchReturns(s, threw) ==
    LET snap == server[TaskOf(s)]
        branch == Branch(snap, threw)
    IN  /\ inFlight[s] > 0
        /\ inFlight' = [inFlight EXCEPT ![s] = @ - 1]
        /\ fetched' = [fetched EXCEPT ![s] = Record(@, nFetch[s], snap)]
        /\ observed' = [observed EXCEPT ![s] = Observe(@, nFetch[s], snap)]
        /\ lastObserved' = [lastObserved EXCEPT ![s] = snap]
        /\ lastResponse' = [lastResponse EXCEPT ![s] =
                [kind |-> "snapshot", snapshot |-> snap, error |-> NoError,
                 threw |-> threw]]
        /\ outcome' = [outcome EXCEPT ![s] = Settle(@, branch, snap)]
        /\ calls' = [calls EXCEPT ![s] = Called(@, branch)]
        /\ timers' = [timers EXCEPT ![s] = @ \o Scheduled(s, branch)]
        /\ UNCHANGED <<server, args, nFetch>>
        /\ UNCHANGED uiVars

\* Faulty variant: the catch block retries after the interval.
Retried_Once(s, err) == <<PollInterval(s)>>

\* The timers the catch block arms after a failed request: none, the
\* request is not retried.
Retried(s, err) == <<>>

\* A request of the session fails in the transport: the await throws the
\* transport's error and the catch block passes it to reject().
FetchFails(s, err) ==
    /\ inFlight[s] > 0
    /\ inFlight' = [inFlight EXCEPT ![s] = @ - 1]
    /\ lastResponse' = [lastResponse EXCEPT ![s] =
            [kind |-> "error", snapshot |-> NoSnapshot, error |-> err,
             threw |-> FALSE]]
    /\ outcome' = [outcome EXCEPT ![s] = Reject(@, err)]
    /\ calls' = [calls EXCEPT ![s] = Called(@, "catch")]
    /\ timers' = [timers EXCEPT ![s] = @ \o Retried(s, err)]
    /\ UNCHANGED <<server, args, nFetch, fetched, observed, lastObserved>>
    /\ UNCHANGED uiVars

\* ------------------------------------------------------ the collaborator

Terminal(snap) == snap.status \in {"success", "failure"}

\* The task moves on; a terminal status never changes again.
ServerStep(t, snap) ==
    /\ ~Terminal(server[t])
    /\ snap # server[t]
    /\ server' = [server EXCEPT ![t] = snap]
    /\ UNCHANGED <<args, inFlight, timers, outcome, calls, nFetch, fetched,
                   observed, lastObserved, lastResponse>>
    /\ UNCHANGED uiVars

\* The session's request completes, one way or the other.
FetchCompletes(s) ==
    \/ \E threw \in BOOLEAN : FetchReturns(s, threw)
    \/ \E err \in TransportErrors : FetchFails(s, err)

\* One session against a collaborator whose tasks move on.
Next ==
    \/ \E t \in TaskIds, iv \in IntervalArgs : StartSession("s1", t, iv)
    \/ TimerFires("s1")
    \/ \E threw \in BOOLEAN : FetchReturns("s1", threw)
    \/ \E err \in TransportErrors : FetchFails("s1", err)
    \/ \E t \in TaskIds, snap \in Snapshots : ServerStep(t, snap)

Spec == Init /\ [][Next]_vars

\* Every issued request completes (axios gives up after its timeout at the
\* latest) and every armed timer fires; the collaborator owes nothing.
FairSpec ==
    /\ Spec
    /\ \A s \in Sessions :
            WF_vars(TimerFires(s)) /\ WF_vars(FetchCompletes(s))

\* Two sessions side by side, on the same task or on different ones, each
\* task answering with one snapshot, whichever it is, throughout.
PairInit ==
    /\ server \in [TaskIds -> Snapshots]
    /\ args = [s \in Sessions |-> NotStarted]
    /\ inFlight = [s \in Sessions |-> 0]
    /\ timers = [s \in Sessions |-> <<>>]
    /\ outcome = [s \in Sessions |-> Pending]
    /\ calls = [s \in Sessions |-> [resolve |-> 0, reject |-> 0]]
    /\ nFetch = [s \in Sessions |-> 0]
    /\ fetched = [s \in Sessions |-> <<>>]
    /\ observed = [s \in Sessions |-> <<>>]
    /\ lastObserved = [s \in Sessions |-> NoSnapshot]
    /\ lastResponse = [s \in Sessions |-> NoResponse]
    /\ UiIdle

PairNext ==
    \/ \E s \in Sessions, t \in TaskIds, iv \in IntervalArgs :
            StartSession(s, t, iv)
    \/ \E s \in Sessions : TimerFires(s)
    \/ \E s \in Sessions, threw \in BOOLEAN : FetchReturns(s, threw)
    \/ \E s \in Sessions, err \in TransportErrors : FetchFails(s, err)

PairSpec == PairInit /\ [][PairNext]_vars

\* ------------------------------------------------------------ properties

\* -------------------------------------------------------- link validation
\* String.prototype.trim, and the stripping of leading and trailing spaces
\* that the URL parser starts with.
RECURSIVE TrimStart(_)
TrimStart(text) ==
    IF text # <<>> /\ Head(text) = Space THEN TrimStart(Tail(text)) ELSE text
RECURSIVE TrimEnd(_)
TrimEnd(text) ==
    IF text # <<>> /\ text[Len(text)] = Space
    THEN TrimEnd(SubSeq(text, 1, Len(text) - 1))
    ELSE text
Trim(text) == TrimEnd(TrimStart(text))

\* String.prototype.includes.
Includes(text, part) ==
    \E i \in 0..(Len(text) - Len(part)) :
        SubSeq(text, i + 1, i + Len(part)) = part

\* The position of the first (last) character of `text` that is in `cs`;
\* 0 when there is none.
FirstOf(text, cs) ==
    LET at == {i \in 1..Len(text) : text[i] \in cs}
    IN  IF at = {} THEN 0 ELSE CHOOSE i \in at : \A j \in at : i <= j
LastOf(text, cs) ==
    LET at == {i \in 1..Len(text) : text[i] \in cs}
    IN  IF at = {} THEN 0 ELSE CHOOSE i \in at : \A j \in at : j <= i
From(text, i) == SubSeq(text, i, Len(text))
LowerCase(text) ==
    [i \in 1..Len(text) |->
        IF text[i] \in DOMAIN ToLower THEN ToLower[text[i]] ELSE text[i]]

\* new URL(url) without a base, for the texts of the model.  The parser
\* strips the spaces around the text and wants a scheme: a letter, then
\* letters and dots, up to the first colon.  After a special scheme it skips every
\* slash and takes the authority up to the next slash or question mark;
\* the host is what follows the last at sign, it must not be empty or
\* hold a space, and it is lower-cased.  After another scheme there is an
\* authority only behind two slashes, and its host is kept as written.
\* A text it cannot parse makes it throw: ok is FALSE.
SpecialSchemes == {<<"h", "t", "t", "p">>, <<"h", "t", "t", "p", "s">>, <<"f", "t", "p">>}
Parsed(hostname) == [ok |-> TRUE, hostname |-> hostname]
TypeError == [ok |-> FALSE, hostname |-> <<>>]
SchemeEnd(text) ==
    LET colon == FirstOf(text, {":"})
    IN  IF /\ colon > 1
           /\ text[1] \in Letters
           /\ \A i \in 2..(colon - 1) : text[i] \in Letters \cup {"."}
        THEN colon ELSE 0
RECURSIVE SkipSlashes(_)
SkipSlashes(text) ==
    IF text # <<>> /\ Head(text) = "/" THEN SkipSlashes(Tail(text)) ELSE text
Authority(text) ==
    LET end == FirstOf(text, {"/", "?"})
    IN  IF end = 0 THEN text ELSE SubSeq(text, 1, end - 1)
HostOf(authority) == From(authority, LastOf(authority, {"@"}) + 1)
ParseURL(text) ==
    LET input == Trim(text)
        colon == SchemeEnd(input)
        scheme == LowerCase(SubSeq(input, 1, colon - 1))
        rest == From(input, colon + 1)
        host == HostOf(Authority(SkipSlashes(rest)))
        opaque == HostOf(Authority(From(rest, 3)))
    IN  IF colon = 0 THEN TypeError
        ELSE IF scheme \in SpecialSchemes
        THEN IF host = <<>> \/ Includes(host, <<Space>>)
             THEN TypeError ELSE Parsed(LowerCase(host))
        ELSE IF Len(rest) >= 2 /\ SubSeq(rest, 1, 2) = <<"/", "/">>
        THEN IF Includes(opaque, <<Space>>)
             THEN TypeError ELSE Parsed(opaque)
        ELSE Parsed(<<>>)

\* Faulty variant: there is no catch block, the parser's exception passes.
Caught_Rethrown == Throw

\* The catch block of validateVideoLink.
Caught == Return(LinkValidation(FALSE, Undefined, "Please enter a valid URL"))

\* Faulty variant: Vimeo is tested before YouTube.
Platform_VimeoFirst(hostname) ==
    IF Includes(hostname, VimeoCom) THEN "vimeo"
    ELSE IF Includes(hostname, YoutubeCom) \/ Includes(hostname, YoutuBe)
    THEN "youtube"
    ELSE IF Includes(hostname, DriveGoogleCom) THEN "google-drive"
    ELSE Undefined

\* The three tests of the hostname, in their order: the platform, or
\* Undefined when none of them matches.
Platform(hostname) ==
    IF Includes(hostname, YoutubeCom) \/ Includes(hostname, YoutuBe)
    THEN "youtube"
    ELSE IF Includes(hostname, VimeoCom) THEN "vimeo"
    ELSE IF Includes(hostname, DriveGoogleCom) THEN "google-drive"
    ELSE Undefined

validateVideoLink(text) ==
    LET urlObj == ParseURL(text)
        platform == Platform(urlObj.hostname)
    IN  IF Trim(text) = <<>>
        THEN Return(LinkValidation(FALSE, Undefined, "Please enter a URL"))
        ELSE IF ~urlObj.ok THEN Caught
        ELSE IF platform # Undefined
        THEN Return(LinkValidation(TRUE, platform, Undefined))
        ELSE Return(LinkValidation(FALSE, Undefined,
                 "Only YouTube, Vimeo, and Google Drive links are supported"))

\* A caller hands a text to validateVideoLink.
Validate ==
    /\ result = NotCalled
    /\ result' = validateVideoLink(url)
    /\ UNCHANGED <<pollerVars, url, submitVars, pageVars>>

\* validateVideoLink on its own: one call on any of the texts.
ValidateInit ==
    /\ PollerIdle /\ SubmitIdle /\ PageMounted
    /\ url \in Urls
    /\ result = NotCalled

ValidateNext == Validate

ValidateSpec == ValidateInit /\ [][ValidateNext]_vars

\* ------------------------------------------------------- submitVoiceClone
\* JSON.stringify of a voice_settings object, as the sequence of its
\* tokens.
RECURSIVE MembersText(_)
MembersText(members) ==
    IF members = <<>> THEN <<>>
    ELSE <<"\"", Head(members)[1], "\"", ":", "\"", Head(members)[2], "\"">>
         \o (IF Tail(members) = <<>> THEN <<>>
             ELSE <<",">> \o MembersText(Tail(members)))
JSONStringify(settings) == <<"{">> \o MembersText(settings.members) \o <<"}">>

\* value || fallback on a string that may be left out.
Or(value, fallback) == IF value \in {Undefined, ""} THEN fallback ELSE value

Entry(name, value) == [name |-> name, value |-> value]

\* Faulty variant: the source is the default of the type, whatever the
\* caller says.
SourceOf_DefaultOnly(request) ==
    IF request.type = "file" THEN "local" ELSE "unknown"

\* request.source || "local", request.source || "unknown".
SourceOf(request) ==
    IF request.type = "file"
    THEN Or(request.source, "local")
    ELSE Or(request.source, "unknown")

\* Faulty variant: the optional fields are appended whether given or not.
OptionalFields_Always(request) ==
    <<Entry("target_language", TextValue(Word(request.target_language))),
      Entry("voice_settings",
            TextValue(JSONStringify(request.voice_settings)))>>

\* The two conditional appends.
OptionalFields(request) ==
    (IF Or(request.target_language, Undefined) # Undefined
     THEN <<Entry("target_language",
                  TextValue(Word(request.target_language)))>>
     ELSE <<>>)
    \o (IF request.voice_settings.given
        THEN <<Entry("voice_settings",
                     TextValue(JSONStringify(request.voice_settings)))>>
        ELSE <<>>)

\* The FormData submitVoiceClone builds, as its entries in order.
FormDataOf(request) ==
    (IF request.type = "file"
     THEN <<Entry("file", request.data),
            Entry("source", TextValue(Word(SourceOf(request))))>>
     ELSE <<Entry("link", request.data),
            Entry("source", TextValue(Word(SourceOf(request))))>>)
    \o <<Entry("type", TextValue(Word(request.type)))>>
    \o OptionalFields(request)

\* api.post("/voice/voice-clone", formData, ...).
Post(formData) == [path |-> "/voice/voice-clone", body |-> formData]

\* A call of submitVoiceClone at its await: the requests it has posted, who
\* called it, and whether the page's mutation still watches it.
Call(request, posts, via, watched) ==
    [request |-> request, posts |-> posts, via |-> via, watched |-> watched]
Remove(seq, i) == SubSeq(seq, 1, i - 1) \o SubSeq(seq, i + 1, Len(seq))
Settled(call, answer, promise) ==
    [request |-> call.request, posts |-> call.posts, answer |-> answer,
     promise |-> promise]

\* The response interceptor's error handler: the error, rejected again.
Intercepted(err) == err

\* Faulty variant: a failed POST is sent once more.
Reposted_Once(call, err) ==
    IF Len(call.posts) < 2 THEN <<Post(FormDataOf(call.request))>> ELSE <<>>

\* The requests submitVoiceClone sends after a failed POST: none.
Reposted(call, err) == <<>>

\* The body of submitVoiceClone up to its await: the FormData is built
\* and posted.
SubmitVoiceClone(earlier, request, via) ==
    /\ Len(earlier) < MaxSubmits
    /\ submits' =
           Append(earlier,
                  Call(request, <<Post(FormDataOf(request))>>, via,
                       via = "mutation"))

\* What the mutation makes of the end of a call it started: onSuccess
\* clears the selection; the state changes if it still watches the call.
MutationSettles(call, next) ==
    IF call.via = "mutation"
    THEN /\ mutation' = IF call.watched THEN next ELSE mutation
         /\ IF next.status = "success"
            THEN selectedFile' = NoFile /\ selectedLink' = <<>>
            ELSE UNCHANGED <<selectedFile, selectedLink>>
    ELSE UNCHANGED <<mutation, selectedFile, selectedLink>>

\* The POST of call i is answered: submitVoiceClone returns response.data.
PostSucceeds(i, body) ==
    /\ i \in DOMAIN submits
    /\ LET call == submits[i]
           response == HttpResponse(body)
       IN  /\ submits' = Remove(submits, i)
           /\ settled' = Settled(call, Answer("response", response, NoError),
                                 Fulfilled(response.data))
           /\ MutationSettles(call, Mutation("success", response.data, NoError))
    /\ UNCHANGED <<pollerVars, validateVars, activeTab, link, validation,
                   alerted>>

\* The POST of call i fails: the interceptor passes the error on and the
\* await throws it out of submitVoiceClone.
PostFails(i, err) ==
    /\ i \in DOMAIN submits
    /\ LET call == submits[i]
           again == Reposted(call, err)
       IN  IF again # <<>>
           THEN /\ submits' =
                       [submits EXCEPT ![i].posts = call.posts \o again]
                /\ UNCHANGED <<settled, mutation, selectedFile, selectedLink>>
           ELSE /\ submits' = Remove(submits, i)
                /\ settled' = Settled(call, Answer("error", HttpResponse(NoBody), err),
                                      Failed(Intercepted(err)))
                /\ MutationSettles(call,
                                   Mutation("error", NoBody, Intercepted(err)))
    /\ UNCHANGED <<pollerVars, validateVars, activeTab, link, validation,
                   alerted>>

\* A caller of its own calls submitVoiceClone with an UploadRequest.
DirectCall(request) ==
    /\ submits = <<>> /\ settled = NoCall
    /\ SubmitVoiceClone(submits, request, "caller")
    /\ UNCHANGED <<pollerVars, validateVars, settled, pageVars>>

\* submitVoiceClone on its own: one call with any UploadRequest.
SubmitInit == PollerIdle /\ ValidateIdle /\ SubmitIdle /\ PageMounted

SubmitNext ==
    \/ \E request \in FileRequests : DirectCall(request)
    \/ \E request \in TextRequests : DirectCall(request)
    \/ \E i \in 1..MaxSubmits, body \in ApiResponses : PostSucceeds(i, body)
    \/ \E i \in 1..MaxSubmits, err \in TransportErrors : PostFails(i, err)

SubmitSpec == SubmitInit /\ [][SubmitNext]_vars

\* -------------------------------------------------------- the upload page
\* mutation.isPending, handed to both tabs as isLoading.
IsLoading == mutation.status = "pending"

\* The calls the mutation no longer watches once it is reset or used again.
Detached(earlier) ==
    [i \in DOMAIN earlier |-> [earlier[i] EXCEPT !.watched = FALSE]]

\* mutation.mutate(request): the mutation is pending and runs mutationFn.
Mutate(request) ==
    /\ mutation' = Mutation("pending", NoBody, NoError)
    /\ SubmitVoiceClone(Detached(submits), request, "mutation")

\* UploadPage.handleFileSelect, the onFileSelect of the upload tab.
HandleFileSelect(file, source) ==
    /\ selectedFile' = file
    /\ Mutate(UploadRequest("file", FileValue(file), source, Undefined,
                            NoSettings))

\* UploadPage.handleLinkSubmit, the onLinkSubmit of the link tab.
HandleLinkSubmit(text, platform) ==
    /\ selectedLink' = text
    /\ Mutate(UploadRequest("link", TextValue(text), platform, Undefined,
                            NoSettings))

ValidTypes ==
    {"video/mp4", "video/avi", "video/mov", "video/wmv", "audio/mp3",
     "audio/wav", "audio/mpeg"}

\* UploadTab.handleFileSelection(file, "local"), from a drop on the card or
\* from the file input; the card takes no pointer events and the button
\* that opens the input is disabled while isLoading.
HandleFileSelection(file) ==
    /\ activeTab = "upload" /\ ~IsLoading
    /\ IF file.type \notin ValidTypes
       THEN /\ alerted' = "Please select a valid video or audio file"
            /\ UNCHANGED <<submits, selectedFile, mutation>>
       ELSE IF file.size > MaxFileSize
       THEN /\ alerted' = "File size must be less than 100MB"
            /\ UNCHANGED <<submits, selectedFile, mutation>>
       ELSE /\ HandleFileSelect(file, "local")
            /\ UNCHANGED alerted
    /\ UNCHANGED <<pollerVars, validateVars, settled, activeTab, selectedLink,
                   link, validation>>

\* UploadTab.handleGoogleDriveUpload; its button is disabled while
\* isLoading.
HandleGoogleDriveUpload ==
    /\ activeTab = "upload" /\ ~IsLoading
    /\ alerted' = "Google Drive integration would be implemented here"
    /\ UNCHANGED <<pollerVars, validateVars, submitVars, activeTab,
                   selectedFile, selectedLink, mutation, link, validation>>

\* Faulty variant: a validation that is valid stays when the text changes.
Revalidated_OnceValid(value) ==
    IF validation.isValid THEN validation
    ELSE IF Trim(value) # <<>>
    THEN validateVideoLink(value).value
    ELSE LinkValidation(FALSE, Undefined, Undefined)

\* The validation handleLinkChange stores with the text.
Revalidated(value) ==
    IF Trim(value) # <<>>
    THEN validateVideoLink(value).value
    ELSE LinkValidation(FALSE, Undefined, Undefined)

\* LinkTab.handleLinkChange(value); the input is disabled while isLoading.
HandleLinkChange(value) ==
    /\ activeTab = "link" /\ ~IsLoading
    /\ link' = value
    /\ validation' = Revalidated(value)
    /\ UNCHANGED <<pollerVars, validateVars, submitVars, activeTab,
                   selectedFile, selectedLink, mutation, alerted>>

\* LinkTab.handleSubmit; its button is disabled while the validation is
\* not valid or isLoading.
HandleSubmit ==
    /\ activeTab = "link" /\ validation.isValid /\ ~IsLoading
    /\ IF validation.isValid /\ validation.platform # Undefined
       THEN HandleLinkSubmit(link, validation.platform)
       ELSE UNCHANGED <<submits, selectedLink, mutation>>
    /\ UNCHANGED <<pollerVars, validateVars, settled, activeTab, selectedFile,
                   link, validation, alerted>>

\* UploadPage.handleTabChange(value) on a click on the other tab.  The
\* selection is cleared and the mutation reset: it is idle and watches no
\* call any more.  The tab that is left is unmounted, so the link tab
\* starts from its initial state when it is shown again.
HandleTabChange(value) ==
    /\ value # activeTab
    /\ selectedFile' = NoFile
    /\ selectedLink' = <<>>
    /\ activeTab' = value
    /\ mutation' = MutationIdle
    /\ submits' = Detached(submits)
    /\ link' = <<>>
    /\ validation' = LinkValidation(FALSE, Undefined, Undefined)
    /\ UNCHANGED <<pollerVars, validateVars, settled, alerted>>

\* The upload page in use.
PageInit == PollerIdle /\ ValidateIdle /\ SubmitIdle /\ PageMounted

PageNext ==
    \/ \E file \in PageFiles : HandleFileSelection(file)
    \/ HandleGoogleDriveUpload
    \/ \E value \in PageLinks : HandleLinkChange(value)
    \/ HandleSubmit
    \/ \E value \in Tabs : HandleTabChange(value)
    \/ \E i \in 1..MaxSubmits, body \in ApiResponses : PostSucceeds(i, body)
    \/ \E i \in 1..MaxSubmits, err \in TransportErrors : PostFails(i, err)

PageSpec == PageInit /\ [][PageNext]_vars


IsSettled(s) == outcome[s].state # "pending"
Resolved(snap) == [state |-> "resolved", snapshot |-> snap, error |-> NoError]
Rejected(err) == [state |-> "rejected", snapshot |-> NoSnapshot, error |-> err]

\* The session's latest request returned a snapshot with one of `statuses`.
Returned(s, statuses) ==
    /\ lastResponse[s].kind = "snapshot"
    /\ lastResponse[s].snapshot.status \in statuses

\* C1: resolve and reject are called at most once between them in every
\* session, whatever the requests return and whatever the observer does.
C1_SettledAtMostOnce ==
    \A s \in Sessions :
        /\ calls[s].resolve + calls[s].reject <= 1
        /\ outcome[s].state = "resolved" => calls[s].resolve = 1
        /\ outcome[s].state = "rejected" => calls[s].reject = 1

\* A session settled on a later poll than its first.
C1_Witness ==
    \E s \in Sessions :
        nFetch[s] >= 2 /\ calls[s].resolve + calls[s].reject = 1

\* C2: once the collaborator reports `success` or `failure` for the task, a
\* session polling it eventually has its outcome settled and is idle, given
\* that requests complete and timers fire.
C2_TerminalStatusEndsPolling ==
    \A s \in Sessions :
        (Started(s) /\ Terminal(server[TaskOf(s)]))
            ~> (IsSettled(s) /\ inFlight[s] = 0 /\ timers[s] = <<>>)

\* A session that waited at least once and was resolved by the terminal
\* status of its task.
C2_Witness ==
    \E s \in Sessions :
        /\ Started(s) /\ Terminal(server[TaskOf(s)])
        /\ nFetch[s] >= 2 /\ outcome[s].state = "resolved"
        /\ inFlight[s] = 0 /\ timers[s] = <<>>

\* C3 as claimed: every started session eventually has its outcome settled,
\* whatever the collaborator answers.
C3_AlwaysSettles == \A s \in Sessions : Started(s) ~> IsSettled(s)

\* C3: a started session eventually has its outcome settled unless the
\* collaborator keeps answering with non-terminal statuses: from every moment
\* on, eventually the outcome is settled or a request has returned a
\* non-terminal status and the next poll is armed.
C3_SettlesOrKeepsPolling ==
    \A s \in Sessions :
        Started(s) ~>
            \/ IsSettled(s)
            \/ /\ Returned(s, NonTerminalStatuses)
               /\ timers[s] # <<>>

\* A session that has polled more often than the histories record and is
\* waiting for its next poll, its outcome still unsettled.
C3_Witness ==
    \E s \in Sessions :
        /\ nFetch[s] > MaxPolls /\ ~IsSettled(s)
        /\ Returned(s, NonTerminalStatuses) /\ timers[s] # <<>>

\* C4 as claimed: a returned `success` snapshot is what the outcome is
\* resolved with, and a resolved outcome carries a `success` snapshot, the
\* one of the observer's last invocation.
C4_SuccessResolves ==
    \A s \in Sessions :
        /\ Returned(s, {"success"}) =>
                outcome[s] = Resolved(lastResponse[s].snapshot)
        /\ outcome[s].state = "resolved" =>
                /\ outcome[s].snapshot.status = "success"
                /\ outcome[s].snapshot = lastObserved[s]

\* C4: a returned `success` snapshot is what the outcome is resolved with
\* unless the observer threw on it, and a resolved outcome carries a
\* `success` snapshot, the one of the observer's last invocation.
C4_SuccessResolvesUnlessObserverThrew ==
    \A s \in Sessions :
        /\ Returned(s, {"success"}) /\ ~lastResponse[s].threw =>
                outcome[s] = Resolved(lastResponse[s].snapshot)
        /\ outcome[s].state = "resolved" =>
                /\ outcome[s].snapshot.status = "success"
                /\ outcome[s].snapshot = lastObserved[s]

\* A session resolved by the `success` its second or a later poll returned.
C4_Witness ==
    \E s \in Sessions :
        /\ Returned(s, {"success"}) /\ ~lastResponse[s].threw
        /\ nFetch[s] >= 2 /\ outcome[s].state = "resolved"

\* C5 as claimed: on a returned `failure` snapshot the observer has been
\* invoked with it and the outcome is rejected with an Error whose message
\* is the error_message, or "Task failed" when there is none.
C5_FailureRejects ==
    \A s \in Sessions :
        Returned(s, {"failure"}) =>
            LET snap == lastResponse[s].snapshot
            IN  /\ lastObserved[s] = snap
                /\ outcome[s] = Rejected(ErrorValue("Error",
                        IF snap.error_message = Undefined THEN "Task failed"
                        ELSE snap.error_message))

\* C5: on a returned `failure` snapshot the observer has been invoked with
\* it and, unless the observer threw, the outcome is rejected with an Error
\* whose message is the error_message, or "Task failed" when there is none
\* or it is the empty string.
C5_FailureRejectsWithMessageOrFallback ==
    \A s \in Sessions :
        Returned(s, {"failure"}) =>
            LET snap == lastResponse[s].snapshot
            IN  /\ lastObserved[s] = snap
                /\ ~lastResponse[s].threw =>
                        outcome[s] = Rejected(ErrorValue("Error",
                            IF snap.error_message = Undefined
                                   \/ snap.error_message = ""
                            THEN "Task failed"
                            ELSE snap.error_message))

\* The sequence [pending, failure] with error_message "model timeout".
C5_Witness ==
    \E s \in Sessions :
        /\ fetched[s] = <<Snapshot("pending", Undefined),
                          Snapshot("failure", "model timeout")>>
        /\ outcome[s] = Rejected(ErrorValue("Error", "model timeout"))

\* The interval the session was given, 2000 ms when it was given none.
IntervalOf(s) ==
    IF args[s].pollInterval = Omitted THEN 2000 ELSE args[s].pollInterval.ms

\* One further poll of the session is under way: its timer is armed with
\* the session's interval, or has fired and the request is out.
OneMorePoll(s) ==
    \/ timers[s] = <<IntervalOf(s)>> /\ inFlight[s] = 0
    \/ timers[s] = <<>> /\ inFlight[s] = 1

\* C6 as claimed: after a returned status other than `success` and
\* `failure` the outcome is unsettled and exactly one further poll is under
\* way, scheduled after the session's interval.
C6_NonTerminalSchedules ==
    \A s \in Sessions :
        Returned(s, NonTerminalStatuses) => ~IsSettled(s) /\ OneMorePoll(s)

\* C6: the same, unless the observer threw on the snapshot.
C6_NonTerminalSchedulesUnlessObserverThrew ==
    \A s \in Sessions :
        Returned(s, NonTerminalStatuses) /\ ~lastResponse[s].threw =>
            ~IsSettled(s) /\ OneMorePoll(s)

\* A session waiting its overridden interval after an unrecognized status.
C6_Witness ==
    \E s \in Sessions :
        /\ Returned(s, {"queued"}) /\ ~lastResponse[s].threw
        /\ args[s].pollInterval = Given(500) /\ timers[s] = <<500>>
        /\ ~IsSettled(s)

\* C7: after a request failed in the transport the outcome is rejected with
\* the transport's own error, the observer was not invoked for that poll
\* (it has been invoked once for each earlier poll and no more), and no
\* request is out and no timer armed: the session never polls again.
C7_TransportErrorRejectsAndStops ==
    \A s \in Sessions :
        lastResponse[s].kind = "error" =>
            /\ lastResponse[s].error \in TransportErrors
            /\ outcome[s] = Rejected(lastResponse[s].error)
            /\ inFlight[s] = 0 /\ timers[s] = <<>>
            /\ nFetch[s] <= MaxPolls =>
                    /\ Len(observed[s]) = nFetch[s] - 1
                    /\ observed[s] = fetched[s]
            /\ Len(observed[s]) >= 1 =>
                    lastObserved[s] = observed[s][Len(observed[s])]

\* A session whose third request failed.
C7_Witness ==
    \E s \in Sessions :
        /\ lastResponse[s].kind = "error" /\ nFetch[s] = 3
        /\ outcome[s].state = "rejected"

\* C8: a session never has two requests in flight, two timers armed, or a
\* request in flight while a timer is armed.
C8_FetchAndWaitAreSequential ==
    \A s \in Sessions :
        /\ inFlight[s] <= 1
        /\ Len(timers[s]) <= 1
        /\ ~(inFlight[s] >= 1 /\ timers[s] # <<>>)

\* A session on its third request, after two waits.
C8_Witness ==
    \E s \in Sessions :
        nFetch[s] = 3 /\ inFlight[s] = 1 /\ Len(fetched[s]) = 2

\* The history is some non-terminal snapshots followed by a `success`.
EndsInSuccess(h) ==
    /\ h # <<>>
    /\ h[Len(h)].status = "success"
    /\ \A i \in 1..(Len(h) - 1) : h[i].status \in NonTerminalStatuses

\* Polls of the session whose request has completed.
Completed(s) == nFetch[s] - inFlight[s]

\* The observer was invoked once for each returned snapshot, in order and
\* with that snapshot; every completed request but a failed one returned a
\* snapshot; and the first request went out with the call.
ObservedEveryPoll(s) ==
    /\ observed[s] = fetched[s]
    /\ Len(fetched[s]) =
            Completed(s) - (IF lastResponse[s].kind = "error" THEN 1 ELSE 0)
    /\ Started(s) => nFetch[s] >= 1
    /\ fetched[s] # <<>> =>
            /\ lastObserved[s] = fetched[s][Len(fetched[s])]
            /\ lastResponse[s].kind = "snapshot" =>
                    lastResponse[s].snapshot = lastObserved[s]

\* C9 as claimed, for the sessions whose histories are kept: the observer is
\* invoked once per returned snapshot, in order and with that snapshot, and
\* k non-terminal statuses followed by `success` make k+1 requests, k+1
\* observer invocations and an outcome resolved with the last snapshot.
C9_ObserverOncePerPoll ==
    \A s \in Sessions :
        nFetch[s] <= MaxPolls =>
            /\ ObservedEveryPoll(s)
            /\ EndsInSuccess(fetched[s]) =>
                    /\ nFetch[s] = Len(fetched[s])
                    /\ Len(observed[s]) = Len(fetched[s])
                    /\ outcome[s] = Resolved(fetched[s][Len(fetched[s])])

\* C9: the same, the outcome being resolved with the last snapshot unless
\* the observer threw on it.
C9_ObserverOncePerPollResolvesUnlessThrew ==
    \A s \in Sessions :
        nFetch[s] <= MaxPolls =>
            /\ ObservedEveryPoll(s)
            /\ EndsInSuccess(fetched[s]) =>
                    /\ nFetch[s] = Len(fetched[s])
                    /\ Len(observed[s]) = Len(fetched[s])
                    /\ ~lastResponse[s].threw =>
                            outcome[s] = Resolved(fetched[s][Len(fetched[s])])

\* The sequence [pending, processing, processing, success]: four requests,
\* four invocations, the second and third with equal snapshots.
C9_Witness ==
    \E s \in Sessions :
        /\ fetched[s] = <<Snapshot("pending", Undefined),
                          Snapshot("processing", Undefined),
                          Snapshot("processing", Undefined),
                          Snapshot("success", Undefined)>>
        /\ nFetch[s] = 4 /\ Len(observed[s]) = 4
        /\ outcome[s] = Resolved(Snapshot("success", Undefined))

\* Requests in flight for task t, over all sessions.
RECURSIVE InFlightOf(_, _)
InFlightOf(t, ss) ==
    IF ss = {} THEN 0
    ELSE LET s == CHOOSE x \in ss : TRUE
         IN  (IF Started(s) /\ TaskOf(s) = t THEN inFlight[s] ELSE 0)
                 + InFlightOf(t, ss \ {s})

SessionsOn(t) == {s \in Sessions : Started(s) /\ TaskOf(s) = t}

\* C10 as claimed: at most one request for a task identifier is in flight,
\* whatever sessions have been started for it.
C10_OneFetchPerTask == \A t \in TaskIds : InFlightOf(t, Sessions) <= 1

\* C10: the requests in flight for a task identifier are at most as many as
\* the sessions started for it, one per session.
C10_OneFetchPerSession ==
    \A t \in TaskIds : InFlightOf(t, Sessions) <= Cardinality(SessionsOn(t))

\* Two sessions, one task, the second request out while the first session
\* waits for its second poll or has it out too.
C10_Witness ==
    \E t \in TaskIds :
        /\ Cardinality(SessionsOn(t)) = 2
        /\ InFlightOf(t, Sessions) = 2
        /\ \E s \in Sessions : nFetch[s] >= 2

\* C11: once the outcome of a session is settled the session is quiescent:
\* no request is out and no timer armed when it settles, and from then on
\* it issues no request, never invokes the observer and arms no timer.
C11_QuiescentOnceSettled ==
    [][\A s \in Sessions :
          /\ IsSettled(s)' => inFlight'[s] = 0 /\ timers'[s] = <<>>
          /\ IsSettled(s) =>
                /\ nFetch'[s] = nFetch[s]
                /\ observed'[s] = observed[s]
                /\ lastObserved'[s] = lastObserved[s]
                /\ outcome'[s] = outcome[s]]_vars

\* A session rejected by a `failure` on its third poll, with nothing left.
C11_Witness ==
    \E s \in Sessions :
        /\ outcome[s].state = "rejected" /\ Returned(s, {"failure"})
        /\ nFetch[s] = 3 /\ inFlight[s] = 0 /\ timers[s] = <<>>

\* C19: when the observer threw on a snapshot the outcome is rejected with
\* the thrown value, resolve was never called, even on a `success`, and no
\* request is out and no timer armed.
C19_ObserverThrowRejectsAndStops ==
    \A s \in Sessions :
        lastResponse[s].threw =>
            /\ outcome[s] = Rejected(ObserverError)
            /\ calls[s].resolve = 0
            /\ inFlight[s] = 0 /\ timers[s] = <<>>

\* The observer threw on the `success` snapshot of a second poll.
C19_Witness ==
    \E s \in Sessions :
        /\ lastResponse[s].threw /\ Returned(s, {"success"})
        /\ nFetch[s] = 2 /\ outcome[s].state = "rejected"

\* The text is empty or all spaces.
Blank(text) == \A i \in 1..Len(text) : text[i] = Space
\* `part` stands somewhere in `text`.
Contains(text, part) ==
    \E i \in 1..Len(text) :
        /\ i + Len(part) - 1 <= Len(text)
        /\ \A k \in 1..Len(part) : text[i + k - 1] = part[k]
\* The hostname is the domain or a subdomain of it.
UnderDomain(hostname, domain) ==
    \/ hostname = domain
    \/ /\ Len(hostname) > Len(domain)
       /\ From(hostname, Len(hostname) - Len(domain)) = <<".">> \o domain
Validated == result # NotCalled
Accepted(platform) == Return(LinkValidation(TRUE, platform, Undefined))
Refused(error) == Return(LinkValidation(FALSE, Undefined, error))

\* C14: validateVideoLink answers a blank text with "Please enter a URL"
\* and a text that is no well-formed URL with "Please enter a valid URL";
\* for a well-formed URL it looks at the hostname: one that contains
\* youtube.com or youtu.be is youtube, else one that contains vimeo.com is
\* vimeo, else one that contains drive.google.com is google-drive, and any
\* other gets "Only YouTube, Vimeo, and Google Drive links are supported".
C14_ClassifiesByHostname ==
    Validated =>
        LET hostname == ParseURL(url).hostname
        IN  IF Blank(url) THEN result = Refused("Please enter a URL")
            ELSE IF ~ParseURL(url).ok
            THEN result = Refused("Please enter a valid URL")
            ELSE IF Contains(hostname, YoutubeCom) \/ Contains(hostname, YoutuBe)
            THEN result = Accepted("youtube")
            ELSE IF Contains(hostname, VimeoCom)
            THEN result = Accepted("vimeo")
            ELSE IF Contains(hostname, DriveGoogleCom)
            THEN result = Accepted("google-drive")
            ELSE result = Refused(
                     "Only YouTube, Vimeo, and Google Drive links are supported")

\* A hostname with youtu.be and vimeo.com in it was taken for YouTube.
C14_Witness ==
    /\ Validated
    /\ ParseURL(url).ok
    /\ Contains(ParseURL(url).hostname, YoutuBe)
    /\ Contains(ParseURL(url).hostname, VimeoCom)
    /\ result = Accepted("youtube")

\* C15: validateVideoLink never throws, and its result carries exactly one
\* of platform and error: platform exactly when isValid is true, error
\* exactly when it is false.
C15_NeverThrowsOnePresent ==
    Validated =>
        /\ result.kind = "return"
        /\ result.value.isValid <=> result.value.platform # Undefined
        /\ ~result.value.isValid <=> result.value.error # Undefined

\* A text the URL parser throws on was answered by the catch block.
C15_Witness ==
    /\ Validated
    /\ ~Blank(url) /\ ~ParseURL(url).ok
    /\ result.kind = "return" /\ ~result.value.isValid

\* C17: validateVideoLink accepts a text only when the hostname of its URL
\* is youtube.com, youtu.be, vimeo.com or drive.google.com or a subdomain
\* of one of them.
C17_OnlyPlatformDomains ==
    Validated /\ result.kind = "return" /\ result.value.isValid =>
        \E domain \in {YoutubeCom, YoutuBe, VimeoCom, DriveGoogleCom} :
            UnderDomain(ParseURL(url).hostname, domain)

\* Every POST a submitVoiceClone call has sent, with the call's request.
PostsOf(call) ==
    {[request |-> call.request, post |-> call.posts[k]] :
        k \in DOMAIN call.posts}
AllSent ==
    UNION {PostsOf(submits[i]) : i \in DOMAIN submits} \cup PostsOf(settled)
\* The entries of a FormData under one name, and the text of the only one.
Named(formData, name) == SelectSeq(formData, LAMBDA e : e.name = name)
TextOf(formData, name) == Named(formData, name)[1].value.text
FieldNames ==
    {"file", "link", "source", "type", "target_language", "voice_settings"}
\* The text is the JSON object of the members: braces around the quoted
\* keys and values in order.
IsJsonOf(text, members) ==
    /\ Len(text) = IF members = <<>> THEN 2 ELSE 8 * Len(members) + 1
    /\ text[1] = "{" /\ text[Len(text)] = "}"
    /\ \A k \in DOMAIN members :
           /\ text[8 * k - 5] = members[k][1]
           /\ text[8 * k - 3] = ":"
           /\ text[8 * k - 1] = members[k][2]

\* C12: the multipart request submitVoiceClone builds for an UploadRequest
\* has exactly one of the fields file and link, the one of request.type,
\* carrying request.data; it always has source and type; and it has
\* target_language and voice_settings, the latter as JSON text, only when
\* the request supplies them.
C12_FormDataMatchesRequest ==
    \A sent \in AllSent :
        LET request == sent.request
            formData == sent.post.body
            payload == IF request.type = "file" THEN "file" ELSE "link"
        IN  /\ \A i \in DOMAIN formData : formData[i].name \in FieldNames
            /\ Len(Named(formData, "file")) + Len(Named(formData, "link")) = 1
            /\ Named(formData, payload) = <<Entry(payload, request.data)>>
            /\ Len(Named(formData, "source")) = 1
            /\ Named(formData, "type") =
                   <<Entry("type", TextValue(Word(request.type)))>>
            /\ Len(Named(formData, "target_language")) <= 1
            /\ Len(Named(formData, "voice_settings")) <= 1
            /\ Named(formData, "target_language") # <<>> =>
                   /\ request.target_language # Undefined
                   /\ TextOf(formData, "target_language") =
                          Word(request.target_language)
            /\ request.target_language \notin {Undefined, ""} =>
                   Named(formData, "target_language") # <<>>
            /\ Named(formData, "voice_settings") # <<>> <=>
                   request.voice_settings.given
            /\ Named(formData, "voice_settings") # <<>> =>
                   IsJsonOf(TextOf(formData, "voice_settings"),
                            request.voice_settings.members)

\* A link request with a language and two voice settings was posted with
\* five fields.
C12_Witness ==
    \E sent \in AllSent :
        /\ sent.request.type = "link"
        /\ sent.request.target_language = "es"
        /\ Len(sent.request.voice_settings.members) = 2
        /\ Len(sent.post.body) = 5
        /\ Len(TextOf(sent.post.body, "voice_settings")) = 17

\* C13: a submitVoiceClone call issues exactly one POST, to
\* /voice/voice-clone; when the POST is answered the call returns the body
\* of the response, and when it fails the call rejects with the transport
\* error unchanged, without a second attempt.
C13_OnePostBodyOrError ==
    /\ \A i \in DOMAIN submits :
           /\ Len(submits[i].posts) = 1
           /\ submits[i].posts[1].path = "/voice/voice-clone"
    /\ settled # NoCall =>
           /\ Len(settled.posts) = 1
           /\ settled.posts[1].path = "/voice/voice-clone"
           /\ settled.answer.kind = "response" =>
                  settled.promise = Fulfilled(settled.answer.response.data)
           /\ settled.answer.kind = "error" =>
                  settled.promise = Failed(settled.answer.error)

\* A call whose POST failed has rejected with the error after one POST.
C13_Witness ==
    /\ settled # NoCall
    /\ settled.answer.kind = "error"
    /\ settled.promise.state = "rejected"
    /\ settled.promise.error \in TransportErrors
    /\ Len(settled.posts) = 1

\* C16: in every request submitVoiceClone sends, type file goes with source
\* local, and type link with one of youtube, vimeo, google-drive, unknown.
C16_SourceMatchesType ==
    \A sent \in AllSent :
        LET formData == sent.post.body
        IN  /\ TextOf(formData, "type") = Word("file") =>
                   TextOf(formData, "source") = Word("local")
            /\ TextOf(formData, "type") = Word("link") =>
                   TextOf(formData, "source") \in
                       {Word("youtube"), Word("vimeo"), Word("google-drive"),
                        Word("unknown")}

\* C16, amended: the source sent is the request's own when it has one,
\* whatever the type, and otherwise local for a file and unknown for a
\* link.
C16_SourceIsGivenOrDefault ==
    \A sent \in AllSent :
        LET request == sent.request
            source == TextOf(sent.post.body, "source")
        IN  /\ request.source # Undefined => source = Word(request.source)
            /\ request.source = Undefined /\ request.type = "file" =>
                   source = Word("local")
            /\ request.source = Undefined /\ request.type = "link" =>
                   source = Word("unknown")

\* A file request that names google-drive was sent with that source.
C16_Witness ==
    \E sent \in AllSent :
        /\ sent.request.type = "file"
        /\ sent.request.source = "google-drive"
        /\ TextOf(sent.post.body, "source") = Word("google-drive")

\* The requests of the page's calls that await their answer.
PageRequests ==
    {submits[i].request : i \in {j \in DOMAIN submits :
                                     submits[j].via = "mutation"}}

\* C18: the upload tab hands a file to onFileSelect only when its MIME type
\* is one of the valid types and its size is less than 100 * 1024 * 1024
\* bytes.
C18_OnlyListedTypesUnderLimit ==
    \A request \in PageRequests :
        request.type = "file" =>
            /\ request.data.file.type \in ValidTypes
            /\ request.data.file.size < MaxFileSize

\* C20: the link tab calls onLinkSubmit only with a text that
\* validateVideoLink accepts and with the platform it detects, so that a
\* link request of the page carries youtube, vimeo or google-drive and
\* never unknown.
C20_SubmitsOnlyValidatedLinks ==
    /\ \A request \in PageRequests :
           request.type = "link" =>
               /\ validateVideoLink(request.data.text) =
                      Accepted(request.source)
               /\ request.source \in {"youtube", "vimeo", "google-drive"}
               /\ SourceOf(request) # "unknown"
    /\ selectedLink # <<>> =>
           validateVideoLink(selectedLink).value.isValid

\* A Vimeo link typed into the link tab is on its way with source vimeo.
C20_Witness ==
    \E i \in DOMAIN submits :
        /\ submits[i].via = "mutation"
        /\ submits[i].request.type = "link"
        /\ submits[i].request.source = "vimeo"
        /\ TextOf(submits[i].posts[1].body, "source") = Word("vimeo")
        /\ selectedLink = submits[i].request.data.text

\* C21: on the upload page at most one submitVoiceClone request awaits its
\* answer at any time, whatever the user does: selecting or dropping a
\* file, submitting a link, switching the tab.
C21_AtMostOneInFlight ==
    Cardinality({i \in DOMAIN submits : submits[i].via = "mutation"}) <= 1

====
